---- MODULE Spec2Model ----
(***************************************************************************)
(* Letter Store Service (src/src/server.js): anonymous letters keyed by a  *)
(* caller-supplied secret code, one handler per route, a periodic cleanup  *)
(* of expired letters, all state in one MongoDB collection.                *)
(*                                                                         *)
(* Every handler is an async function: it runs synchronously up to an      *)
(* `await` of a store call, the store executes the call at some later      *)
(* moment, and the handler resumes later still.  Each of these moments is  *)
(* one action, so handlers, the cleanup and the clock interleave freely.   *)
(* Time is counted in hours.                                               *)
(***************************************************************************)
EXTENDS Integers, FiniteSets, Sequences, TLC

\* ---------------------------------------------------------------- bounds
NumProcs   == 2     \* requests that may be in flight at the same time
MaxNow     == 48    \* the clock stops advancing here
TickHours  == 24    \* granularity of the clock
MaxRequests == 3    \* requests received in one run

\* ------------------------------------------------------ program constants
TTL        == 24        \* 24 * 60 * 60 * 1000 ms, in hours
ImageLimit == 5000000   \* image.length > 5000000

Procs == 1..NumProcs
Codes == {"X1", "X2"}

\* ------------------------------------------------------------- JS values
Undefined == "undefined"                      \* an absent string field
NoImage   == [data |-> "undefined", length |-> 0]   \* an absent image
Img(d, n) == [data |-> d, length |-> n]       \* a base64 string of length n

\* !x for a string field: undefined and "" are falsy
Falsy(s) == s = Undefined \/ s = ""
\* !x for an image
FalsyImage(i) == i = NoImage \/ i.length = 0

\* >= in place of >
ImageTooLargeGe(i) == ~FalsyImage(i) /\ i.length >= ImageLimit

\* image && image.length > 5000000
ImageTooLarge(i) == ~FalsyImage(i) /\ i.length > ImageLimit

\* ------------------------------------------------------------- documents
\* findOne's null / a handler variable not yet assigned
Null == [_id |-> 0]

\* the reply sub-record of a letter that has none
NoReply == [text |-> Undefined, signature |-> Undefined, image |-> NoImage, sent |-> 0]

\* a constructor call with from and to in each other's place and no image
NewLetterSwapped(id, b, t, exp) ==
    [_id |-> id, secretCode |-> b.secretCode, from |-> b.to, to |-> b.from,
     text |-> b.text, signature |-> b.signature, image |-> NoImage,
     sent |-> t, expires |-> exp, hasReply |-> FALSE, reply |-> NoReply]

\* new Letter({from, to, secretCode, text, signature, image, expires}):
\* _id is a fresh ObjectId, sent defaults to Date.now, hasReply to false
NewLetter(id, b, t, exp) ==
    [_id |-> id, secretCode |-> b.secretCode, from |-> b.from, to |-> b.to,
     text |-> b.text, signature |-> b.signature, image |-> b.image,
     sent |-> t, expires |-> exp, hasReply |-> FALSE, reply |-> NoReply]

\* letter.hasReply = true; letter.reply = { text, signature, image, sent: new Date() }
WithReply(l, b, t) ==
    [l EXCEPT !.hasReply = TRUE,
              !.reply = [text |-> b.text, signature |-> b.signature,
                         image |-> b.image, sent |-> t]]

\* ---------------------------------------------------------------- inputs
Body(f, t, c, x, s, i) ==
    [from |-> f, to |-> t, secretCode |-> c, text |-> x, signature |-> s, image |-> i]

NoBody == Body(Undefined, Undefined, Undefined, Undefined, Undefined, NoImage)

ValidSubmitBodies ==
    { Body("A", "B", "X1", "hi", "S", NoImage),
      Body("C", "D", "X2", "yo", "T", Img("png", ImageLimit)) }

InvalidSubmitBodies ==
    { Body("", "B", "X1", "hi", "S", NoImage),
      Body("A", Undefined, "X1", "hi", "S", NoImage),
      Body("A", "B", "", "hi", "S", NoImage),
      Body("A", "B", "X1", Undefined, "S", NoImage),
      Body("A", "B", "X1", "hi", "", NoImage),
      Body("A", "B", "X2", "hi", "S", Img("big", ImageLimit + 1)) }

SubmitBodies == ValidSubmitBodies \cup InvalidSubmitBodies

ReplyBody(x, s, i) == Body(Undefined, Undefined, Undefined, x, s, i)

ValidReplyBodies ==
    { ReplyBody("re", "B", NoImage), ReplyBody("ok", "D", Img("gif", ImageLimit)) }

InvalidReplyBodies ==
    { ReplyBody("", "B", NoImage), ReplyBody("re", Undefined, NoImage),
      ReplyBody("re", "B", Img("big", ImageLimit + 1)) }

ReplyBodies == ValidReplyBodies \cup InvalidReplyBodies

\* ------------------------------------------------------------- responses
MsgAllFields   == "All fields are required"
MsgImageLarge  == "Image too large. Please use a smaller image."
MsgCodeInUse   == "Secret code already in use"
MsgSent        == "Letter sent successfully"
MsgCodeRequired == "Secret code is required"
MsgNoLetter    == "No letter found with this code"
MsgExpired     == "Letter has expired"
MsgReplyFields == "Text and signature are required"
MsgReplySent   == "Reply sent successfully"
MsgServerError == "Server error"

\* res.status(s).json({message, expiresAt}) / res.json(letter)
Resp(s, m, l, e) == [status |-> s, message |-> m, letter |-> l, expiresAt |-> e]
NoResp == Resp(0, "", Null, 0)

\* a request slot that has not been used
Idle == [op |-> "idle", pc |-> "idle", secretCode |-> Undefined, body |-> NoBody,
         letter |-> Null, resp |-> NoResp]

VARIABLES
    store,      \* the letters collection: a set of documents
    now,        \* the wall clock (Date.now()), in hours
    nextId,     \* the next ObjectId
    req,        \* req[p]: the request handled in slot p and its handler's locals
    sweep,      \* cleanupExpiredLetters: its position and its local `now`
    started     \* the number of requests received so far

vars == <<store, now, nextId, req, sweep, started>>

\* ------------------------------------------------------- store operations
\* a lookup that skips expired letters
FindOneLive(c) ==
    IF \E d \in store : d.secretCode = c /\ now <= d.expires
    THEN CHOOSE d \in store : d.secretCode = c /\ now <= d.expires
    ELSE Null

\* a lookup that never finds anything
FindOneMiss(c) == Null

\* Letter.findOne({ secretCode })
FindOne(c) ==
    IF \E d \in store : d.secretCode = c
    THEN CHOOSE d \in store : d.secretCode = c
    ELSE Null

\* a collection whose only unique key is _id
DuplicateKeyOnId(d) == \E e \in store : e._id = d._id

\* a collection without the unique index
DuplicateKeyNoIndex(d) == FALSE

\* the unique index on secretCode: does inserting d raise a duplicate key error?
DuplicateKey(d) == \E e \in store : e.secretCode = d.secretCode

\* a delete with the filter turned round
DeleteByIdWrong(id) == { d \in store : d._id = id }

\* a delete that matches no document
DeleteByIdNoop(id) == store

\* Letter.findByIdAndDelete(id)
DeleteById(id) == { d \in store : d._id # id }

\* a deleteMany whose filter matches nothing
DeleteManyNone(t) == store

\* $lte in place of $lt
DeleteManyLte(t) == { d \in store : ~(d.expires <= t) }

\* Letter.deleteMany({ expires: { $lt: t } })
DeleteMany(t) == { d \in store : ~(d.expires < t) }

\* a save that keeps a reply that is already stored
UpdateReplyIfNone(l) ==
    { IF d._id = l._id /\ ~d.hasReply
      THEN [d EXCEPT !.hasReply = l.hasReply, !.reply = l.reply] ELSE d : d \in store }

\* an update without the _id filter
UpdateReplyAll(l) ==
    { [d EXCEPT !.hasReply = l.hasReply, !.reply = l.reply] : d \in store }

\* a save that writes hasReply but not the reply sub-record
UpdateReplyFlagOnly(l) ==
    { IF d._id = l._id THEN [d EXCEPT !.hasReply = l.hasReply] ELSE d : d \in store }

\* letter.save() of a loaded document: $set of the modified paths on _id
UpdateReply(l) ==
    { IF d._id = l._id THEN [d EXCEPT !.hasReply = l.hasReply, !.reply = l.reply] ELSE d
      : d \in store }

\* an expiry check that never fires
ExpiredNever(l) == FALSE

\* an expiry check that is a day late
ExpiredLate(l) == now > l.expires + TTL

\* new Date() > letter.expires
Expired(l) == now > l.expires

Init ==
    /\ store = {}
    /\ now = 0
    /\ nextId = 1
    /\ req = [p \in Procs |-> Idle]
    /\ sweep = [pc |-> "idle", now |-> 0]
    /\ started = 0

\* -------------------------------------------------------------- the clock
Tick ==
    /\ now + TickHours <= MaxNow
    /\ now' = now + TickHours
    /\ UNCHANGED <<store, nextId, req, sweep, started>>

\* a slot with no handler running in it; a request is received in the first
\* such slot (the slots are interchangeable)
Free(p) == req[p].pc \in {"idle", "done"}
Receives(p) ==
    /\ Free(p)
    /\ \A q \in Procs : q < p => ~Free(q)
    /\ started < MaxRequests
    /\ started' = started + 1

\* res.status(..).json(..): the handler has answered r and returned, its
\* locals are gone
Answer(p, op, r) ==
    req' = [req EXCEPT ![p] = [Idle EXCEPT !.op = op, !.pc = "done", !.resp = r]]
Respond(p, r) == Answer(p, req[p].op, r)

\* the handler awaits its first store call
Await(p, op, c, b) ==
    req' = [req EXCEPT ![p] = [Idle EXCEPT !.op = op, !.pc = "find",
                                           !.secretCode = c, !.body = b]]

\* ------------------------------------------------- createLetterHandler
\* lines 59-69: validation, then the findOne call is issued
SubmitStart(p, b) ==
    /\ Receives(p)
    /\ IF Falsy(b.from) \/ Falsy(b.to) \/ Falsy(b.secretCode)
          \/ Falsy(b.text) \/ Falsy(b.signature)
       THEN Answer(p, "submit", Resp(400, MsgAllFields, Null, 0))
       ELSE IF ImageTooLarge(b.image)
       THEN Answer(p, "submit", Resp(400, MsgImageLarge, Null, 0))
       ELSE Await(p, "submit", b.secretCode, b)
    /\ UNCHANGED <<store, now, nextId, sweep>>

\* line 69: the store executes findOne
SubmitFind(p) ==
    /\ req[p].op = "submit" /\ req[p].pc = "find"
    /\ req' = [req EXCEPT ![p].pc = "found", ![p].letter = FindOne(req[p].secretCode)]
    /\ UNCHANGED <<store, now, nextId, sweep, started>>

\* lines 70-86: the handler resumes with existingLetter, builds newLetter
\* and issues save
SubmitCheck(p) ==
    /\ req[p].op = "submit" /\ req[p].pc = "found"
    /\ IF req[p].letter # Null
       THEN /\ Respond(p, Resp(400, MsgCodeInUse, Null, 0))
            /\ UNCHANGED nextId
       ELSE /\ req' = [req EXCEPT ![p].pc = "save",
                          ![p].letter = NewLetter(nextId, req[p].body, now, now + TTL)]
            /\ nextId' = nextId + 1
    /\ UNCHANGED <<store, now, sweep, started>>

\* lines 86-91: the store executes the insert; a duplicate key error is
\* thrown into the catch block (lines 92-95)
SubmitSave(p) ==
    /\ req[p].op = "submit" /\ req[p].pc = "save"
    /\ IF DuplicateKey(req[p].letter)
       THEN /\ Respond(p, Resp(500, MsgServerError, Null, 0))
            /\ UNCHANGED store
       ELSE /\ store' = store \cup {req[p].letter}
            /\ Respond(p, Resp(201, MsgSent, Null, req[p].letter.expires))
    /\ UNCHANGED <<now, nextId, sweep, started>>

\* --------------------------------------------------- getLetterHandler
\* lines 101-107
RetrieveStart(p, c) ==
    /\ Receives(p)
    /\ IF Falsy(c)
       THEN Answer(p, "retrieve", Resp(400, MsgCodeRequired, Null, 0))
       ELSE Await(p, "retrieve", c, NoBody)
    /\ UNCHANGED <<store, now, nextId, sweep>>

\* line 107: the store executes findOne
RetrieveFind(p) ==
    /\ req[p].op = "retrieve" /\ req[p].pc = "find"
    /\ req' = [req EXCEPT ![p].pc = "found", ![p].letter = FindOne(req[p].secretCode)]
    /\ UNCHANGED <<store, now, nextId, sweep, started>>

\* lines 109-118: the handler resumes with letter
RetrieveCheck(p) ==
    /\ req[p].op = "retrieve" /\ req[p].pc = "found"
    /\ IF req[p].letter = Null
       THEN Respond(p, Resp(404, MsgNoLetter, Null, 0))
       ELSE IF Expired(req[p].letter)
       THEN req' = [req EXCEPT ![p].pc = "delete"]
       ELSE Respond(p, Resp(200, "", req[p].letter, 0))
    /\ UNCHANGED <<store, now, nextId, sweep, started>>

\* lines 114-115: the store executes findByIdAndDelete
RetrieveDelete(p) ==
    /\ req[p].op = "retrieve" /\ req[p].pc = "delete"
    /\ store' = DeleteById(req[p].letter._id)
    /\ Respond(p, Resp(404, MsgExpired, Null, 0))
    /\ UNCHANGED <<now, nextId, sweep, started>>

\* -------------------------------------------------- replyLetterHandler
\* lines 128-139
ReplyStart(p, c, b) ==
    /\ Receives(p)
    /\ IF Falsy(b.text) \/ Falsy(b.signature)
       THEN Answer(p, "reply", Resp(400, MsgReplyFields, Null, 0))
       ELSE IF ImageTooLarge(b.image)
       THEN Answer(p, "reply", Resp(400, MsgImageLarge, Null, 0))
       ELSE Await(p, "reply", c, b)
    /\ UNCHANGED <<store, now, nextId, sweep>>

\* line 139: the store executes findOne
ReplyFind(p) ==
    /\ req[p].op = "reply" /\ req[p].pc = "find"
    /\ req' = [req EXCEPT ![p].pc = "found", ![p].letter = FindOne(req[p].secretCode)]
    /\ UNCHANGED <<store, now, nextId, sweep, started>>

\* lines 141-157: the handler resumes with letter, modifies it and issues save
ReplyCheck(p) ==
    /\ req[p].op = "reply" /\ req[p].pc = "found"
    /\ IF req[p].letter = Null
       THEN Respond(p, Resp(404, MsgNoLetter, Null, 0))
       ELSE IF Expired(req[p].letter)
       THEN Respond(p, Resp(400, MsgExpired, Null, 0))
       ELSE req' = [req EXCEPT ![p].pc = "save",
                       ![p].letter = WithReply(req[p].letter, req[p].body, now)]
    /\ UNCHANGED <<store, now, nextId, sweep, started>>

\* an update addressed by secretCode instead of by _id
ReplySaveByCode(p) ==
    /\ req[p].op = "reply" /\ req[p].pc = "save"
    /\ IF \E d \in store : d.secretCode = req[p].letter.secretCode
       THEN /\ store' = { IF d.secretCode = req[p].letter.secretCode
                          THEN [d EXCEPT !.hasReply = TRUE, !.reply = req[p].letter.reply]
                          ELSE d : d \in store }
            /\ Respond(p, Resp(200, MsgReplySent, Null, 0))
       ELSE /\ Respond(p, Resp(500, MsgServerError, Null, 0))
            /\ UNCHANGED store
    /\ UNCHANGED <<now, nextId, sweep, started>>

\* lines 157-159: the store executes the update; when no document has the
\* _id any more, save rejects (DocumentNotFoundError) into the catch block
ReplySave(p) ==
    /\ req[p].op = "reply" /\ req[p].pc = "save"
    /\ IF \E d \in store : d._id = req[p].letter._id
       THEN /\ store' = UpdateReply(req[p].letter)
            /\ Respond(p, Resp(200, MsgReplySent, Null, 0))
       ELSE /\ Respond(p, Resp(500, MsgServerError, Null, 0))
            /\ UNCHANGED store
    /\ UNCHANGED <<now, nextId, sweep, started>>

\* ------------------------------------------------------- store failures
\* a catch block that swallows the error and answers 200
StoreErrorSwallowed(p) ==
    /\ req[p].pc \in {"find", "save", "delete"}
    /\ Respond(p, Resp(200, "", Null, 0))
    /\ UNCHANGED <<store, now, nextId, sweep, started>>

\* a pending store call rejects: the catch block of the handler answers 500
StoreError(p) ==
    /\ req[p].pc \in {"find", "save", "delete"}
    /\ Respond(p, Resp(500, MsgServerError, Null, 0))
    /\ UNCHANGED <<store, now, nextId, sweep, started>>

\* ----------------------------------------------- cleanupExpiredLetters
\* lines 169-170: started by setInterval or by the listen callback
SweepStart ==
    /\ sweep.pc = "idle"
    /\ sweep' = [pc |-> "deleteMany", now |-> now]
    /\ UNCHANGED <<store, now, nextId, req, started>>

\* line 170: the store executes deleteMany
SweepDelete ==
    /\ sweep.pc = "deleteMany"
    /\ store' = DeleteMany(sweep.now)
    /\ sweep' = [pc |-> "idle", now |-> 0]
    /\ UNCHANGED <<now, nextId, req, started>>

\* lines 172-174: deleteMany rejects, the error is logged
SweepError ==
    /\ sweep.pc = "deleteMany"
    /\ sweep' = [pc |-> "idle", now |-> 0]
    /\ UNCHANGED <<store, now, nextId, req, started>>

Submit(p) ==
    \/ \E b \in SubmitBodies : SubmitStart(p, b)
    \/ SubmitFind(p)
    \/ SubmitCheck(p)
    \/ SubmitSave(p)

Retrieve(p) ==
    \/ \E c \in Codes : RetrieveStart(p, c)
    \/ RetrieveFind(p)
    \/ RetrieveCheck(p)
    \/ RetrieveDelete(p)

Reply(p) ==
    \/ \E c \in Codes, b \in ReplyBodies : ReplyStart(p, c, b)
    \/ ReplyFind(p)
    \/ ReplyCheck(p)
    \/ ReplySave(p)

Sweep == SweepStart \/ SweepDelete \/ SweepError

Next ==
    \/ Tick
    \/ \E p \in Procs : Submit(p)
    \/ \E p \in Procs : Retrieve(p)
    \/ \E p \in Procs : Reply(p)
    \/ \E p \in Procs : StoreError(p)
    \/ Sweep

Spec == Init /\ [][Next]_vars

\* One request at a time, with the clock and the cleanup running alongside.
\* setInterval (line 178) starts cleanupExpiredLetters again and again, and
\* its deleteMany call does not reject forever.
LiveNext ==
    \/ Tick
    \/ Submit(1)
    \/ Retrieve(1)
    \/ Reply(1)
    \/ StoreError(1)
    \/ Sweep

LiveSpec == Init /\ [][LiveNext]_vars /\ WF_vars(SweepStart) /\ SF_vars(SweepDelete)

TypeOK ==
    /\ now \in 0..(MaxNow + TickHours)
    /\ nextId \in 1..(MaxRequests + 1)
    /\ started \in 0..MaxRequests
    /\ \A d \in store : d._id \in 1..MaxRequests /\ d.expires = d.sent + TTL
    /\ \A p \in Procs : /\ req[p].op \in {"idle", "submit", "retrieve", "reply"}
                        /\ req[p].pc \in {"idle", "find", "found", "save", "delete", "done"}
    /\ sweep.pc \in {"idle", "deleteMany"}

\* ------------------------------------------------------------------------
\* Properties
\* ------------------------------------------------------------------------

\* slot p's handler takes a step
Steps(p, op, from) == req[p].op = op /\ req[p].pc = from /\ req'[p] # req[p]

\* the handler in slot p answers in this step
Answers(p) == req'[p].pc = "done" /\ req'[p] # req[p]

\* the documents stored under code c
Stored(c) == { d \in store : d.secretCode = c }

\* C1: in every reachable state, however Submit, Retrieve, Reply and Sweep
\* interleave (two Submits with the same secretCode included), the store
\* holds at most one letter per secretCode.
C1_UniqueSecretCode ==
    \A d, e \in store : d.secretCode = e.secretCode => d = e

\* Two Submits of the same code have both passed the existence check; the
\* first has inserted its letter and the second is about to insert its own.
C1_Witness ==
    \E p \in Procs :
        /\ req[p].op = "submit" /\ req[p].pc = "save"
        /\ \E d \in store : /\ d.secretCode = req[p].letter.secretCode
                            /\ d._id # req[p].letter._id

\* C2: once a letter has a reply, no later Reply to it is accepted: a Reply
\* whose save reaches a letter that already has hasReply = true does not
\* answer 200 and does not change the stored reply sub-record.
C2_SecondReplyRejected ==
    [][\A p \in Procs :
         (/\ Steps(p, "reply", "save")
          /\ \E d \in store : d._id = req[p].letter._id /\ d.hasReply)
         => (req'[p].resp.status # 200 /\ store' = store)]_vars

\* C3: Retrieve answers 200 only with a letter that is not expired when the
\* handler compares the clock with letter.expires.  When the lookup found the
\* stored letter of the code and now > expires at the check, the handler goes
\* on to delete the record and answers 404 (500 if the delete call fails);
\* when the record is already gone the lookup finds nothing and the answer
\* is 404 as well.
C3_NoExpiredLetterReturned ==
    [][\A p \in Procs :
         /\ (Answers(p) /\ req[p].op = "retrieve" /\ req'[p].resp.status = 200)
            => /\ req[p].pc = "found"
               /\ req[p].letter # Null
               /\ now <= req[p].letter.expires
               /\ req'[p].resp.letter = req[p].letter
         /\ (Steps(p, "retrieve", "find") /\ req'[p].pc = "found")
            => /\ \A d \in Stored(req[p].secretCode) : req'[p].letter = d
               /\ Stored(req[p].secretCode) = {} => req'[p].letter = Null
         /\ (Steps(p, "retrieve", "found") /\ req[p].letter = Null)
            => req'[p].pc = "done" /\ req'[p].resp.status = 404
         /\ (Steps(p, "retrieve", "found") /\ req[p].letter # Null
                                           /\ now > req[p].letter.expires)
            => req'[p].pc = "delete"
         /\ Steps(p, "retrieve", "delete")
            => /\ req'[p].pc = "done"
               /\ req'[p].resp.status \in {404, 500}
               /\ req'[p].resp.status = 500 => store' = store]_vars

\* A Retrieve has found an expired letter and answered 404.
C3_Witness ==
    \E p \in Procs : /\ req[p].op = "retrieve" /\ req[p].pc = "done"
                     /\ req[p].resp = Resp(404, MsgExpired, Null, 0)

\* C4: a letter built by Submit at t0 (its sent) has expires = t0 + 24h; no
\* step removes a stored letter, or changes its code or its expiry, while
\* now <= expires; Retrieve's lookup finds the stored letter of its code, and
\* its expiry check answers 200 with the letter when now <= expires and does
\* not answer 200 when now > expires.
C4_LiveUntilExpiry ==
    [][/\ \A d \in store' : d.expires = d.sent + TTL
       /\ \A d \in store :
            now <= d.expires
            => \E e \in store' : /\ e._id = d._id
                                 /\ e.secretCode = d.secretCode
                                 /\ e.expires = d.expires
       /\ \A p \in Procs :
            /\ (Steps(p, "retrieve", "find") /\ req'[p].pc = "found")
               => \A d \in Stored(req[p].secretCode) : req'[p].letter = d
            /\ (Steps(p, "retrieve", "found") /\ req[p].letter # Null)
               => IF now <= req[p].letter.expires
                  THEN req'[p].pc = "done"
                       /\ req'[p].resp = Resp(200, "", req[p].letter, 0)
                  ELSE req'[p].resp.status # 200]_vars

\* A Retrieve made exactly at t0 + 24h has returned the letter.
C4_Witness ==
    \E p \in Procs : /\ req[p].op = "retrieve" /\ req[p].pc = "done"
                     /\ req[p].resp.status = 200
                     /\ req[p].resp.letter.expires = now
                     /\ req[p].resp.letter.sent + TTL = now

\* C5: every stored letter whose expiry has passed is eventually deleted from
\* the store, with or without a Retrieve of its code, as long as the
\* periodic Sweep keeps running.
C5_ExpiredEventuallyDeleted ==
    \A id \in 1..MaxRequests :
        (\E d \in store : d._id = id /\ now > d.expires)
            ~> ~(\E d \in store : d._id = id)

\* The only request of the run was a Submit; its letter has expired and the
\* store is empty again.
C5_Witness ==
    /\ started = 1 /\ nextId = 2
    /\ req[1].op = "submit" /\ req[1].resp.status = 201
    /\ now > req[1].resp.expiresAt
    /\ store = {}

\* C6: a Submit whose existence check finds a letter stored under its
\* secretCode answers 400 'Secret code already in use'; the lookup finds the
\* stored letter of the code whenever there is one, and neither the lookup
\* nor the rejection changes the store, so the existing letter keeps all its
\* fields.
C6_ConflictLeavesLetter ==
    [][\A p \in Procs :
         /\ (Steps(p, "submit", "find") /\ req'[p].pc = "found")
            => /\ \A d \in Stored(req[p].secretCode) : req'[p].letter = d
               /\ store' = store
         /\ (Steps(p, "submit", "found") /\ req[p].letter # Null)
            => /\ req'[p].pc = "done"
               /\ req'[p].resp = Resp(400, MsgCodeInUse, Null, 0)
               /\ store' = store
               /\ nextId' = nextId]_vars

\* A Submit has been rejected with Conflict while a letter is stored.
C6_Witness ==
    \E p \in Procs : /\ req[p].op = "submit" /\ req[p].pc = "done"
                     /\ req[p].resp = Resp(400, MsgCodeInUse, Null, 0)
                     /\ store # {}

\* C7: Retrieve answers for an expired letter exactly what it answers for a
\* code that was never created, that is 404 with the body
\* {message: 'No letter found with this code'}: every Retrieve that does not
\* return a letter and does not hit a store error has that response.
C7_ExpiredLikeNeverCreated ==
    \A p \in Procs :
        (/\ req[p].op = "retrieve" /\ req[p].pc = "done"
         /\ req[p].resp.status \notin {200, 500})
        => req[p].resp = Resp(404, MsgNoLetter, Null, 0)

\* C8: a Submit that is accepted stores one new letter carrying exactly the
\* submitted from, to, secretCode, text, signature and image, with
\* hasReply = false and no reply; afterwards no step changes these fields of
\* a stored letter, and hasReply changes only when a Reply's save reaches the
\* letter; Retrieve's lookup finds the stored letter of its code and a 200
\* answer carries that letter unaltered.
C8_RetrieveReturnsSubmitted ==
    [][/\ \A p \in Procs :
            /\ (Steps(p, "submit", "save") /\ req'[p].resp.status = 201)
               => \E d \in store' :
                     /\ store' = store \cup {d} /\ d \notin store
                     /\ d.secretCode = req[p].body.secretCode
                     /\ d.from = req[p].body.from
                     /\ d.to = req[p].body.to
                     /\ d.text = req[p].body.text
                     /\ d.signature = req[p].body.signature
                     /\ d.image = req[p].body.image
                     /\ d.hasReply = FALSE /\ d.reply = NoReply
            /\ (Steps(p, "retrieve", "find") /\ req'[p].pc = "found")
               => \A d \in Stored(req[p].secretCode) : req'[p].letter = d
            /\ (Answers(p) /\ req[p].op = "retrieve" /\ req'[p].resp.status = 200)
               => req'[p].resp.letter = req[p].letter
       /\ \A d \in store : \A e \in store' :
            e._id = d._id
            => /\ e.secretCode = d.secretCode
               /\ e.from = d.from /\ e.to = d.to /\ e.text = d.text
               /\ e.signature = d.signature /\ e.image = d.image
               /\ e.hasReply # d.hasReply
                  => \E p \in Procs : /\ Steps(p, "reply", "save")
                                      /\ req[p].letter._id = d._id]_vars

\* A Retrieve has returned an unanswered letter with its image.
C8_Witness ==
    \E p \in Procs : /\ req[p].op = "retrieve" /\ req[p].pc = "done"
                     /\ req[p].resp.status = 200
                     /\ req[p].resp.letter.hasReply = FALSE
                     /\ req[p].resp.letter.image = Img("png", ImageLimit)
                     /\ req[p].resp.letter.from = "C"
                     /\ req[p].resp.letter.to = "D"

\* C9: a Retrieve whose lookup found an expired letter deletes exactly that
\* record and answers 404, and the record is absent afterwards; a Retrieve
\* whose lookup finds nothing (the code was never stored, or its record is
\* gone) answers 404 and changes nothing in the store; a lookup finds
\* nothing exactly when no letter is stored under the code.
C9_ExpiredDeletedThenAbsent ==
    [][\A p \in Procs :
         /\ (Steps(p, "retrieve", "delete") /\ req'[p].resp.status # 500)
            => /\ req'[p].resp = Resp(404, MsgExpired, Null, 0)
               /\ store' = { d \in store : d._id # req[p].letter._id }
               /\ ~(\E d \in store' : d._id = req[p].letter._id)
         /\ (Steps(p, "retrieve", "find") /\ req'[p].pc = "found")
            => /\ store' = store
               /\ (req'[p].letter = Null) <=> (Stored(req[p].secretCode) = {})
         /\ (Steps(p, "retrieve", "found") /\ req[p].letter = Null)
            => /\ req'[p].resp = Resp(404, MsgNoLetter, Null, 0)
               /\ store' = store
         /\ (Steps(p, "retrieve", "found") /\ req[p].letter # Null)
            => /\ store' = store
               /\ now > req[p].letter.expires => req'[p].pc = "delete"]_vars

\* One letter was submitted; a Retrieve deleted it after its expiry, and a
\* second Retrieve has found nothing.
C9_Witness ==
    /\ started = 3 /\ nextId = 2 /\ store = {}
    /\ sweep.pc = "idle"
    /\ \E p, q \in Procs :
         /\ req[p].op = "retrieve" /\ req[p].resp = Resp(404, MsgExpired, Null, 0)
         /\ req[q].op = "retrieve" /\ req[q].resp = Resp(404, MsgNoLetter, Null, 0)

\* C10: a Reply with text and signature whose lookup found a letter that is
\* not expired at the check puts {text, signature, image, sent: now} of this
\* Reply and hasReply = true on its copy; its save answers 200 and leaves the
\* stored letter with hasReply = true and exactly this reply; the clock never
\* goes back, so sent is not before the call; a Retrieve that finds the
\* letter afterwards returns it as stored.
C10_ReplyStoredAndReturned ==
    [][/\ now' >= now
       /\ \A p \in Procs :
            /\ (Steps(p, "reply", "found") /\ req[p].letter # Null
                                           /\ now <= req[p].letter.expires)
               => /\ req'[p].pc = "save"
                  /\ req'[p].letter.hasReply
                  /\ req'[p].letter.reply =
                        [text |-> req[p].body.text, signature |-> req[p].body.signature,
                         image |-> req[p].body.image, sent |-> now]
                  /\ req'[p].letter._id = req[p].letter._id
            /\ (Steps(p, "reply", "save") /\ \E d \in store : d._id = req[p].letter._id)
               => \/ req'[p].resp.status = 500 /\ store' = store
                  \/ /\ req'[p].resp = Resp(200, MsgReplySent, Null, 0)
                     /\ \E e \in store' : /\ e._id = req[p].letter._id
                                          /\ e.hasReply
                                          /\ e.reply = req[p].letter.reply
            /\ (Steps(p, "retrieve", "find") /\ req'[p].pc = "found")
               => \A d \in Stored(req[p].secretCode) : req'[p].letter = d
            /\ (Answers(p) /\ req[p].op = "retrieve" /\ req'[p].resp.status = 200)
               => req'[p].resp.letter = req[p].letter]_vars

\* A Retrieve has returned a letter with the reply that carries an image.
C10_Witness ==
    \E p \in Procs : /\ req[p].op = "retrieve" /\ req[p].pc = "done"
                     /\ req[p].resp.status = 200
                     /\ req[p].resp.letter.hasReply
                     /\ req[p].resp.letter.reply.text = "ok"
                     /\ req[p].resp.letter.reply.signature = "D"
                     /\ req[p].resp.letter.reply.image = Img("gif", ImageLimit)
                     /\ req[p].resp.letter.reply.sent >= req[p].resp.letter.sent

\* C11: a Reply whose lookup found a letter that is expired at the check
\* (now > expires) answers 400 'Letter has expired' and writes nothing: the
\* store, and so the letter's hasReply and reply, are unchanged and the
\* record stays in the store.
C11_ReplyAfterExpiryRejected ==
    [][\A p \in Procs :
         /\ (Steps(p, "reply", "find") /\ req'[p].pc = "found")
            => /\ \A d \in Stored(req[p].secretCode) : req'[p].letter = d
               /\ store' = store
         /\ (Steps(p, "reply", "found") /\ req[p].letter # Null
                                        /\ now > req[p].letter.expires)
            => /\ req'[p].pc = "done"
               /\ req'[p].resp = Resp(400, MsgExpired, Null, 0)
               /\ store' = store]_vars

\* A Reply has been rejected as expired and the expired record is still stored.
C11_Witness ==
    \E p \in Procs : /\ req[p].op = "reply" /\ req[p].pc = "done"
                     /\ req[p].resp = Resp(400, MsgExpired, Null, 0)
                     /\ \E d \in store : now > d.expires /\ ~d.hasReply

\* C12: a Submit with from, to, secretCode, text or signature empty or
\* absent answers 400 'All fields are required'; a Submit or Reply with an
\* image longer than 5,000,000 characters answers 400 'Image too large...';
\* both leave the store as it was and issue no store call; a request that is
\* complete and has an image of exactly 5,000,000 characters goes on to its
\* lookup.
C12_RejectedInputChangesNothing ==
    [][\A p \in Procs :
         /\ \A b \in SubmitBodies :
              SubmitStart(p, b)
              => /\ store' = store /\ nextId' = nextId
                 /\ IF \E f \in {b.from, b.to, b.secretCode, b.text, b.signature} :
                          f = Undefined \/ f = ""
                    THEN req'[p].pc = "done"
                         /\ req'[p].resp = Resp(400, MsgAllFields, Null, 0)
                    ELSE IF b.image.length > ImageLimit
                    THEN req'[p].pc = "done"
                         /\ req'[p].resp = Resp(400, MsgImageLarge, Null, 0)
                    ELSE req'[p].pc = "find" /\ req'[p].body = b
         /\ \A c \in Codes, b \in ReplyBodies :
              ReplyStart(p, c, b)
              => /\ store' = store /\ nextId' = nextId
                 /\ IF \E f \in {b.text, b.signature} : f = Undefined \/ f = ""
                    THEN req'[p].pc = "done"
                         /\ req'[p].resp = Resp(400, MsgReplyFields, Null, 0)
                    ELSE IF b.image.length > ImageLimit
                    THEN req'[p].pc = "done"
                         /\ req'[p].resp = Resp(400, MsgImageLarge, Null, 0)
                    ELSE req'[p].pc = "find" /\ req'[p].body = b]_vars

\* A Reply was rejected for its image while a letter is stored, and a Submit
\* with an image of exactly 5,000,000 characters has been stored.
C12_Witness ==
    /\ \E p \in Procs : /\ req[p].op = "reply" /\ req[p].pc = "done"
                        /\ req[p].resp = Resp(400, MsgImageLarge, Null, 0)
    /\ \E d \in store : d.image.length = ImageLimit /\ ~d.hasReply

\* C13: the deleteMany of a Sweep that read the clock as t removes exactly
\* the stored letters with expires < t; every other letter, one with
\* expires = t included, stays as it is, and nothing with expires < t is
\* left, so the same Sweep run again at t removes nothing.
C13_SweepRemovesExactlyExpired ==
    [][SweepDelete
       => /\ store' = { d \in store : d.expires >= sweep.now }
          /\ { d \in store' : d.expires < sweep.now } = {}
          /\ \A d \in store : d.expires = sweep.now => d \in store']_vars

\* Two letters were submitted a day apart; a Sweep at the expiry time of the
\* second has removed the first and left the second.
C13_Witness ==
    /\ started = 2 /\ nextId = 3 /\ sweep.pc = "idle"
    /\ \E p, q \in Procs : /\ req[p].resp = Resp(201, MsgSent, Null, now - TTL)
                            /\ req[q].resp = Resp(201, MsgSent, Null, now)
    /\ \E d \in store : store = {d} /\ d._id = 2 /\ d.expires = now

\* C14: a store call of Submit, Retrieve or Reply that rejects makes the
\* handler answer 500 'Server error' and return (no retry); a step that
\* answers 500 leaves the store as it was, and a handler writes to the store
\* only in the step in which it answers 201, 200 or 404, so no handler leaves
\* a partly applied write behind.
C14_StoreFailureIsServerError ==
    [][\A p \in Procs :
         /\ StoreError(p)
            => /\ req'[p].pc = "done"
               /\ req'[p].resp = Resp(500, MsgServerError, Null, 0)
               /\ store' = store
         /\ (Answers(p) /\ req'[p].resp.status = 500)
            => /\ req'[p].resp = Resp(500, MsgServerError, Null, 0)
               /\ store' = store
         /\ (req'[p] # req[p] /\ store' # store)
            => Answers(p) /\ req'[p].resp.status \in {201, 200, 404}]_vars

\* A Retrieve has answered 500 and the stored letter is still there.
C14_Witness ==
    \E p \in Procs : /\ req[p].op = "retrieve" /\ req[p].pc = "done"
                     /\ req[p].resp = Resp(500, MsgServerError, Null, 0)
                     /\ store # {}

\* the _ids of the stored documents
Ids(S) == { d._id : d \in S }

\* C15: two Submits of one secretCode can both pass the existence check.
\* The insert of a Submit that meets a stored letter with its code is
\* refused by the unique index: it answers 500 'Server error' (not the 400
\* of a Conflict) and the store, with the letter already in it, is
\* unchanged; an insert that meets none stores its own letter and answers
\* 201.
C15_LoserOfSubmitRaceGets500 ==
    [][\A p \in Procs :
         Steps(p, "submit", "save")
         => IF Stored(req[p].letter.secretCode) # {}
            THEN /\ req'[p].resp = Resp(500, MsgServerError, Null, 0)
                 /\ store' = store
            ELSE \/ /\ req'[p].resp = Resp(201, MsgSent, Null, req[p].letter.expires)
                    /\ store' = store \cup {req[p].letter}
                 \/ /\ req'[p].resp = Resp(500, MsgServerError, Null, 0)
                    /\ store' = store]_vars

\* Both Submits have built their letter; the first has stored it and got
\* 201, the second is about to insert a letter with the same code.
C15_Witness ==
    \E p, q \in Procs :
        /\ req[p].op = "submit" /\ req[p].pc = "save"
        /\ req[q].op = "submit" /\ req[q].pc = "done" /\ req[q].resp.status = 201
        /\ started = 2 /\ nextId = 3
        /\ \E d \in store : /\ store = {d}
                            /\ d.secretCode = req[p].letter.secretCode
                            /\ d._id # req[p].letter._id
                            /\ req[q].resp.expiresAt = d.expires

\* C16: the save of a Reply that reaches its letter answers 200 and leaves
\* the stored reply equal to this Reply's, also when the letter got a reply
\* from another Reply after this one looked it up: the later save wins and
\* neither caller gets an error.
C16_LaterReplyOverwrites ==
    [][\A p \in Procs :
         (/\ Steps(p, "reply", "save")
          /\ \E d \in store : d._id = req[p].letter._id /\ d.hasReply
          /\ req'[p].resp.status # 500)
         => /\ req'[p].resp = Resp(200, MsgReplySent, Null, 0)
            /\ \E e \in store' : /\ e._id = req[p].letter._id
                                 /\ e.hasReply
                                 /\ e.reply = req[p].letter.reply
            /\ Ids(store') = Ids(store)]_vars

\* A Reply passed its expiry check before the reply that is now stored was
\* written, and is about to save its own reply over it.
C16_Witness ==
    \E p, q \in Procs :
        /\ req[p].op = "reply" /\ req[p].pc = "save"
        /\ req[q].op = "reply" /\ req[q].pc = "done" /\ req[q].resp.status = 200
        /\ \E d \in store : /\ d._id = req[p].letter._id
                            /\ d.hasReply
                            /\ d.reply.sent > req[p].letter.reply.sent
                            /\ d.reply.text # req[p].letter.reply.text

\* C17: Retrieve's delete removes the record its lookup found and nothing
\* else; when a Sweep has removed that record already, the delete changes
\* nothing and the answer is still 404; a Sweep removes only letters that
\* were expired when it read the clock and changes no letter; a lookup after
\* the removal finds nothing.
C17_RetrieveSweepRace ==
    [][/\ \A p \in Procs :
            /\ (Steps(p, "retrieve", "delete") /\ req'[p].resp.status # 500)
               => /\ req'[p].resp.status = 404
                  /\ store' = store \ { d \in store : d._id = req[p].letter._id }
                  /\ req[p].letter._id \notin Ids(store')
                  /\ req[p].letter._id \notin Ids(store) => store' = store
            /\ (Steps(p, "retrieve", "find") /\ req'[p].pc = "found")
               => /\ store' = store
                  /\ req'[p].letter = Null \/ req'[p].letter \in store
            /\ (Steps(p, "retrieve", "found") /\ req[p].letter # Null
                                              /\ now > req[p].letter.expires)
               => req'[p].pc = "delete" /\ store' = store
       /\ SweepDelete
          => /\ store' \subseteq store
             /\ \A d \in store \ store' : d.expires < sweep.now /\ d.expires < now]_vars

\* A Retrieve found an expired letter, a Sweep removed it, and the Retrieve
\* is about to delete it again while another letter is stored.
C17_Witness ==
    \E p \in Procs :
        /\ req[p].op = "retrieve" /\ req[p].pc = "delete"
        /\ req[p].letter._id \notin Ids(store)
        /\ store # {}
        /\ started = 3 /\ nextId = 3

\* C18: the save of a Reply writes to the document with the _id it looked
\* up and to no other: it creates no document, and when that document is
\* gone it changes nothing, also when another letter is stored under the
\* same secretCode by then.
C18_ReplyWritesOnlyItsRecord ==
    [][\A p \in Procs :
         Steps(p, "reply", "save")
         => /\ Ids(store') = Ids(store)
            /\ \A d \in store : d._id # req[p].letter._id => d \in store'
            /\ req[p].letter._id \notin Ids(store) => store' = store]_vars

\* The letter a Reply looked up is gone and a new letter is stored under
\* the same code; the Reply is about to save.
C18_Witness ==
    \E p \in Procs :
        /\ req[p].op = "reply" /\ req[p].pc = "save"
        /\ req[p].letter._id \notin Ids(store)
        /\ \E d \in store : d.secretCode = req[p].letter.secretCode /\ ~d.hasReply

\* C19: Submit's lookup finds the letter stored under its code also when the
\* letter is expired, and the Submit is then rejected with 400 'Secret code
\* already in use' without creating anything; a Submit is accepted only when
\* no letter is stored under its code, and letters leave the store only
\* through Retrieve's delete or a Sweep.
C19_ExpiredCodeStillInUse ==
    [][/\ \A p \in Procs :
            /\ (Steps(p, "submit", "find") /\ req'[p].pc = "found")
               => \A d \in Stored(req[p].secretCode) :
                     now > d.expires => req'[p].letter = d
            /\ (Steps(p, "submit", "found") /\ req[p].letter # Null
                                            /\ now > req[p].letter.expires)
               => /\ req'[p].resp = Resp(400, MsgCodeInUse, Null, 0)
                  /\ store' = store /\ nextId' = nextId
            /\ (Steps(p, "submit", "save") /\ req'[p].resp.status = 201)
               => Stored(req[p].letter.secretCode) = {}
       /\ ~(Ids(store) \subseteq Ids(store'))
          => \/ sweep.pc = "deleteMany" /\ sweep'.pc = "idle"
             \/ \E p \in Procs : Steps(p, "retrieve", "delete")]_vars

\* A Submit has looked up its code and found a letter that is expired.
C19_Witness ==
    \E p \in Procs :
        /\ req[p].op = "submit" /\ req[p].pc = "found"
        /\ req[p].letter # Null
        /\ now > req[p].letter.expires
        /\ req[p].letter \in store

\* C20: no step changes secretCode, from, to, text, signature, image, sent or
\* expires of a stored letter; a stored letter changes only in the save of a
\* Reply that looked up this very letter, and then only in hasReply and
\* reply; every other letter stays as it is.
C20_MessageImmutable ==
    [][\A d \in store : \A e \in store' :
         e._id = d._id
         => /\ e.secretCode = d.secretCode
            /\ e.from = d.from /\ e.to = d.to /\ e.text = d.text
            /\ e.signature = d.signature /\ e.image = d.image
            /\ e.sent = d.sent /\ e.expires = d.expires
            /\ e # d
               => \E p \in Procs :
                     /\ Steps(p, "reply", "save")
                     /\ req[p].letter._id = d._id
                     /\ req'[p].resp.status = 200
                     /\ e = [d EXCEPT !.hasReply = TRUE,
                                      !.reply = req[p].letter.reply]]_vars

\* Two letters are stored; one has a reply, the other has none.
C20_Witness ==
    \E d, e \in store : /\ d._id # e._id
                        /\ d.hasReply /\ d.reply # NoReply
                        /\ ~e.hasReply /\ e.reply = NoReply
====
